---- MODULE Spec2Model ----
(***************************************************************************)
(* Article pipeline of the news site: the processing orchestrator          *)
(* (article_processor.process_rss_to_site_article), the batch run          *)
(* (article_processor.process_new_rss_articles) with its title dedup and   *)
(* diversity selection, the content generation wrapper                     *)
(* (ai_batch_service.generate_all_explanations), the manual article        *)
(* handler (routers/news.py) and the two persistent stores                 *)
(* (article_cache, explanation_cache).                                     *)
(*                                                                         *)
(* The stores are database files / Firestore collections that outlive the  *)
(* process (CREATE TABLE IF NOT EXISTS, article_cache.py:26-41 and         *)
(* explanation_cache.py:24-38), so the initial state draws their contents  *)
(* from a set of persisted states instead of starting empty.               *)
(***************************************************************************)
EXTENDS Integers, Sequences, FiniteSets, TLC

VARIABLES
    articles,   \* article store: identity -> stored record or NoArticle
    contents,   \* generated-content store: identity -> kind of stored blocks or NoContent
    wk,         \* per worker thread: the call it runs, its position and locals
    sel,        \* inputs and result of one stand-alone _select_diverse_batch evaluation
    site,       \* the web process: configuration, NewsAggregator._news_cache, the request in flight
    tbl,        \* the two tables as sets of rows, for the row-level store operations
    kw          \* keyword_scorer: _autocomplete_cache and the evaluations made so far

vars == <<articles, contents, wk, sel, site, tbl, kw>>

----------------------------------------------------------------------------
(* Bounds of the model *)

MaxBatchLen == 2        \* longest batch handed to process_new_rss_articles
MaxSelLen == 3          \* longest candidate list of the stand-alone selection
MaxSelCount == 3        \* largest max_per_run of the stand-alone selection
MaxSelCap == 2          \* largest per-source / per-category cap of the stand-alone selection

(* Program constants *)

DefaultMaxPerRun == 5   \* process_new_rss_articles(max_per_run=5)
SeedOneMaxPerRun == 1   \* _do_seed_one_sync: max_per_run=1
RunMaxPerSource == 2    \* _select_diverse_batch(..., max_per_source=2, ...)
RunMaxPerCategory == 2  \* _select_diverse_batch(..., max_per_category=2)
RankFactor == 3         \* max_articles = max_per_run * 3
MIN_CONTENT_LENGTH == 80

----------------------------------------------------------------------------
(* The feed: four candidates with fixed attributes.  Candidates 1 and 2    *)
(* carry titles with the same NormalizedTitleKey, candidate 3 has a title  *)
(* that already starts with the bracket marker and is rejected by the      *)
(* lightweight filter (low-value category, no high-value keyword),         *)
(* candidate 4 is a further foreign story.  ManualId stands for the fresh  *)
(* "manual-<uuid>" identity of a manually created article.                 *)

FeedIds == {1, 2, 3, 4}
ManualId == 0
AllIds == FeedIds \cup {ManualId}
Workers == {1, 2}

FOREIGN_SOURCES == {"Reuters", "AP News", "BBC News", "Kyodo", "World News International", "Le Monde"}
LOW_VALUE_CATEGORIES == {"sports", "entertainment"}

FeedTitle(i) ==
    CASE i = 1 -> <<"A", "b">>
      [] i = 2 -> <<"a", "b", "!">>
      [] i = 3 -> <<"[", "x", "]", "c">>
      [] OTHER -> <<"d">>

FeedSource(i) ==
    CASE i = 1 -> "NHK"
      [] i = 2 -> "Reuters"
      [] i = 3 -> "NHK"
      [] OTHER -> "Reuters"

FeedCategory(i) ==
    CASE i = 1 -> "domestic"
      [] i = 2 -> "world"
      [] i = 3 -> "sports"
      [] OTHER -> "world"

\* abstract text attributes that lightweight_filter looks at
FeedTextLen(i) == IF i = 3 THEN 90 ELSE 120
FeedLowTitle(i) == FALSE
FeedHighValue(i) == i = 1

NewsItem(i) == [id |-> i, source |-> FeedSource(i), category |-> FeedCategory(i)]

----------------------------------------------------------------------------
(* Sequences *)

Range(s) == {s[k] : k \in 1..Len(s)}

Take(s, n) == IF n <= 0 THEN <<>> ELSE SubSeq(s, 1, IF n < Len(s) THEN n ELSE Len(s))

\* all orderings of the elements of the sequence s (s has no repetitions)
Orderings(s) ==
    {p \in [1..Len(s) -> Range(s)] : \A a, b \in 1..Len(s) : a # b => p[a] # p[b]}

\* sequences without repetition over S of length at most n
DistinctSeqs(S, n) ==
    UNION {{p \in [1..k -> S] : \A a, b \in 1..k : a # b => p[a] # p[b]} : k \in 0..n}

----------------------------------------------------------------------------
(* Titles are sequences of characters; "[" and "]" stand for the lenticular *)
(* brackets U+3010 / U+3011 of the title marker, "j" for a Japanese        *)
(* character, "general" for the default category.                          *)
(* _normalize_title_for_dedup:                                             *)
(*   t = re.sub(r"\s+", " ", title.strip()).lower()                        *)
(*   return re.sub(r"[^\w<CJK>\s]", "", t).strip()                         *)

IsSpace(c) == c = " "
IsPunct(c) == c \in {"!", "[", "]"}
LowerChar(c) == IF c = "A" THEN "a" ELSE IF c = "B" THEN "b" ELSE c

RECURSIVE LStrip(_)
LStrip(s) == IF s # <<>> /\ IsSpace(Head(s)) THEN LStrip(Tail(s)) ELSE s

RECURSIVE RStrip(_)
RStrip(s) == IF s # <<>> /\ IsSpace(s[Len(s)]) THEN RStrip(SubSeq(s, 1, Len(s) - 1)) ELSE s

Strip(s) == RStrip(LStrip(s))

RECURSIVE CollapseSpaces(_)
CollapseSpaces(s) ==
    IF s = <<>> THEN <<>>
    ELSE IF IsSpace(Head(s))
         THEN <<" ">> \o CollapseSpaces(LStrip(Tail(s)))
         ELSE <<Head(s)>> \o CollapseSpaces(Tail(s))

Lower(s) == [k \in 1..Len(s) |-> LowerChar(s[k])]

RECURSIVE DropPunct(_)
DropPunct(s) ==
    IF s = <<>> THEN <<>>
    ELSE IF IsPunct(Head(s)) THEN DropPunct(Tail(s))
         ELSE <<Head(s)>> \o DropPunct(Tail(s))

normalize_title_for_dedup(title) ==
    Strip(DropPunct(Lower(CollapseSpaces(Strip(title)))))

\* _add_bracket_title: a title that starts with the marker is kept, any
\* other title gets "[label]" in front of its stripped text
Labels == {"x"}
add_bracket_title(title, label) ==
    IF title # <<>> /\ Head(title) = "[" THEN title
    ELSE <<"[", label, "]">> \o Strip(title)

\* translate_and_rewrite / translate_title_to_japanese: the external
\* translator answers with a Japanese title or the call falls back to the
\* original title
TranslatedTitle(i) == <<"j", "b">>
is_foreign_article(i) == FeedSource(i) \in FOREIGN_SOURCES
TitleJaChoices(i) ==
    IF is_foreign_article(i) THEN {FeedTitle(i), TranslatedTitle(i)} ELSE {FeedTitle(i)}

----------------------------------------------------------------------------
(* Lightweight filter, keyword_scorer.lightweight_filter *)

lightweight_filter(textLen, lowTitle, highValue, category) ==
    IF textLen < MIN_CONTENT_LENGTH THEN FALSE
    ELSE IF lowTitle /\ ~highValue THEN FALSE
    ELSE IF category \in LOW_VALUE_CATEGORIES /\ ~highValue THEN FALSE
    ELSE TRUE

PassesFilter(i) ==
    lightweight_filter(FeedTextLen(i), FeedLowTitle(i), FeedHighValue(i), FeedCategory(i))

\* rank_and_filter_articles: the filter survivors ordered by score, cut to
\* max_articles; when nothing survives the unfiltered head of the input.
\* The score sums external autocomplete counts, so every order of the
\* survivors is a possible ranking.
\* variant that returns nothing when no candidate passes the filter
rank_and_filter_articles_strict(items, maxArticles) ==
    {Take(p, maxArticles) : p \in Orderings(SelectSeq(items, PassesFilter))}

rank_and_filter_articles(items, maxArticles) ==
    LET filtered == SelectSeq(items, PassesFilter)
    IN  IF filtered = <<>> THEN {Take(items, maxArticles)}
        ELSE {Take(p, maxArticles) : p \in Orderings(filtered)}

----------------------------------------------------------------------------
(* _select_diverse_batch over candidate records [id, source, category] *)

CatOf(it) == IF it.category = "" THEN "general" ELSE it.category

CountSource(chosen, src) == Cardinality({k \in 1..Len(chosen) : chosen[k].source = src})
CountCategory(chosen, cat) == Cardinality({k \in 1..Len(chosen) : CatOf(chosen[k]) = cat})

\* variant of the capped pass whose cap test is off by one (> for >=)
RECURSIVE FirstPassOffByOne(_, _, _, _, _, _)
FirstPassOffByOne(items, k, chosen, maxPerRun, maxPerSource, maxPerCategory) ==
    IF k > Len(items) \/ Len(chosen) >= maxPerRun THEN chosen
    ELSE IF \/ CountSource(chosen, items[k].source) > maxPerSource
            \/ CountCategory(chosen, CatOf(items[k])) > maxPerCategory
         THEN FirstPassOffByOne(items, k + 1, chosen, maxPerRun, maxPerSource, maxPerCategory)
         ELSE FirstPassOffByOne(items, k + 1, Append(chosen, items[k]), maxPerRun,
                                maxPerSource, maxPerCategory)

RECURSIVE FirstPass(_, _, _, _, _, _)
FirstPass(items, k, chosen, maxPerRun, maxPerSource, maxPerCategory) ==
    IF k > Len(items) \/ Len(chosen) >= maxPerRun THEN chosen
    ELSE IF \/ CountSource(chosen, items[k].source) >= maxPerSource
            \/ CountCategory(chosen, CatOf(items[k])) >= maxPerCategory
         THEN FirstPass(items, k + 1, chosen, maxPerRun, maxPerSource, maxPerCategory)
         ELSE FirstPass(items, k + 1, Append(chosen, items[k]), maxPerRun, maxPerSource, maxPerCategory)

\* variant of the fill-in pass that walks the candidates from the last one
RECURSIVE SecondPassBackwards(_, _, _, _)
SecondPassBackwards(items, k, chosen, maxPerRun) ==
    IF k > Len(items) \/ Len(chosen) >= maxPerRun THEN chosen
    ELSE IF items[Len(items) + 1 - k] \in Range(chosen)
         THEN SecondPassBackwards(items, k + 1, chosen, maxPerRun)
         ELSE SecondPassBackwards(items, k + 1, Append(chosen, items[Len(items) + 1 - k]),
                                  maxPerRun)

RECURSIVE SecondPass(_, _, _, _)
SecondPass(items, k, chosen, maxPerRun) ==
    IF k > Len(items) \/ Len(chosen) >= maxPerRun THEN chosen
    ELSE IF items[k] \in Range(chosen)
         THEN SecondPass(items, k + 1, chosen, maxPerRun)
         ELSE SecondPass(items, k + 1, Append(chosen, items[k]), maxPerRun)

\* variant without the fill-in pass
select_diverse_batch_capped_only(items, maxPerRun, maxPerSource, maxPerCategory) ==
    Take(FirstPass(items, 1, <<>>, maxPerRun, maxPerSource, maxPerCategory), maxPerRun)

select_diverse_batch(items, maxPerRun, maxPerSource, maxPerCategory) ==
    LET first == FirstPass(items, 1, <<>>, maxPerRun, maxPerSource, maxPerCategory)
        all == IF Len(first) < maxPerRun THEN SecondPass(items, 1, first, maxPerRun) ELSE first
    IN  Take(all, maxPerRun)

----------------------------------------------------------------------------
(* Title dedup of process_new_rss_articles (lines 242-257) *)

ExistingNorm(arts) ==
    {normalize_title_for_dedup(arts[i].title) : i \in {j \in AllIds : arts[j].present}}

\* variant of the walk that never records the keys it has seen
RECURSIVE DedupWalkNoSeen(_, _, _, _)
DedupWalkNoSeen(ranked, k, seenNorm, existingNorm) ==
    IF k > Len(ranked) THEN <<>>
    ELSE LET norm == normalize_title_for_dedup(FeedTitle(ranked[k]))
         IN  IF norm \in existingNorm \/ norm \in seenNorm
             THEN DedupWalkNoSeen(ranked, k + 1, seenNorm, existingNorm)
             ELSE <<ranked[k]>> \o DedupWalkNoSeen(ranked, k + 1, seenNorm, existingNorm)

RECURSIVE DedupWalk(_, _, _, _)
DedupWalk(ranked, k, seenNorm, existingNorm) ==
    IF k > Len(ranked) THEN <<>>
    ELSE LET norm == normalize_title_for_dedup(FeedTitle(ranked[k]))
         IN  IF norm \in existingNorm \/ norm \in seenNorm
             THEN DedupWalk(ranked, k + 1, seenNorm, existingNorm)
             ELSE <<ranked[k]>> \o DedupWalk(ranked, k + 1, seenNorm \cup {norm}, existingNorm)

Dedup(ranked, arts) == DedupWalk(ranked, 1, {}, ExistingNorm(arts))

----------------------------------------------------------------------------
(* The two stores *)

NoArticle == [present |-> FALSE, title |-> <<>>]
StoredArticle(title) == [present |-> TRUE, title |-> title]

\* kinds of a stored block list: valid non-empty blocks, the empty list, the
\* fixed fallback (text block + explain block with the retry phrase)
BlockKinds == {"good", "empty", "bad"}

is_bad_fallback_cache(blocks) == blocks = "bad"

\* explanation_cache.get_cached / firestore_get_cached: the stored blocks,
\* "None" for a missing row and for the fallback
get_cached(con, id) ==
    IF con[id] = "NoContent" THEN "None"
    ELSE IF is_bad_fallback_cache(con[id]) THEN "None"
    ELSE con[id]

\* a stored row as get_cached reports it: present and not the fallback
Readable(row) == row # "NoContent" /\ row # "bad"

\* explanation_cache.get_cached_article_ids: every stored row
get_cached_article_ids(con) == {i \in AllIds : con[i] # "NoContent"}

\* variant in which save_cache declares the two keywords its caller passes
save_cache_keywords_lenient == {"quick_understand", "vote_data"}

\* keyword parameters that explanation_cache.save_cache declares besides
\* (article_id, blocks, personas): none
save_cache_keywords == {}

\* keyword arguments of the two call sites of save_cache
GenerateAllCallKeywords == {"quick_understand", "vote_data"}   \* ai_batch_service.py:66
ProcessCallKeywords == {}                                      \* article_processor.py:105

\* a call with a keyword the callee does not declare raises TypeError
\* before the callee's body runs
RaisesTypeError(callKeywords) == ~(callKeywords \subseteq save_cache_keywords)

\* explanation_cache.save_cache: INSERT OR REPLACE of the row
save_cache(con, id, blocks) == [con EXCEPT ![id] = blocks]

\* article_cache.save_article: INSERT OR REPLACE of the row
save_article(arts, id, title) == [arts EXCEPT ![id] = StoredArticle(title)]

\* outcomes of explain_article_long_with_bubbles: a block list of one of
\* the three kinds, or an exception out of the client
GenOutcomes == BlockKinds \cup {"error"}

\* ai_batch_service.generate_all_explanations(article_id, ...) when the
\* generation capability answers g: the returned blocks, whether the call
\* raised, whether generation was invoked, and the content store afterwards
generate_all_explanations(con, id, g) ==
    IF get_cached(con, id) # "None"
    THEN [raised |-> FALSE, generated |-> FALSE, blocks |-> get_cached(con, id), con |-> con]
    ELSE IF g = "error" \/ RaisesTypeError(GenerateAllCallKeywords)
         THEN [raised |-> TRUE, generated |-> TRUE, blocks |-> "none", con |-> con]
         ELSE [raised |-> FALSE, generated |-> TRUE, blocks |-> g, con |-> save_cache(con, id, g)]

----------------------------------------------------------------------------
(* Worker threads *)

IdleWorker ==
    [st |-> "idle", op |-> "none",
     \* process_rss_to_site_article
     pc |-> "idle", item |-> 0, force |-> FALSE, title |-> <<>>, blocks |-> "none",
     did |-> {}, genOut |-> "none", saveFailed |-> FALSE, skipped |-> FALSE, ret |-> "none",
     preArticle |-> NoArticle, preContent |-> "NoContent",
     \* process_new_rss_articles
     bpc |-> "off", batch |-> <<>>, maxPerRun |-> 0, uncached |-> <<>>, ranked |-> <<>>,
     bforce |-> FALSE,
     deduped |-> <<>>, toProcess |-> <<>>, idx |-> 0, count |-> 0, log |-> <<>>,
     \* _do_create_manual_article_sync
     status |-> "none",
     \* route handler or scheduler job the thread runs, its position, the
     \* identity it was called for, the count and the log of its own
     \* pipeline run
     handler |-> "none", hpc |-> "none", target |-> 0, added |-> 0, ownLog |-> <<>>]

\* entry of process_rss_to_site_article(item, force) in the record rec
BeginProcess(rec, i, force) ==
    [rec EXCEPT !.pc = "check", !.item = i, !.force = force, !.title = <<>>,
                !.blocks = "none", !.did = {}, !.genOut = "none", !.saveFailed = FALSE,
                !.skipped = FALSE, !.ret = "none",
                !.preArticle = articles[i], !.preContent = contents[i]]

\* variant in which the result of the call is never handed back
EndProcessNeverFinishes(rec, ret) == [rec EXCEPT !.ret = ret]

\* return (or exception) out of process_rss_to_site_article
EndProcess(rec, ret) ==
    [rec EXCEPT !.pc = "returned", !.ret = ret,
                !.st = IF rec.op = "process" THEN "finished" ELSE rec.st]

\* variant that never skips
SkipsProcessingNever(force, cached) == FALSE

\* line 38: if not force and get_cached(item.id): return False
SkipsProcessing(force, cached) == ~force /\ cached # "None"

\* a caller invokes process_rss_to_site_article(item, force) directly
CallProcess(w) ==
    /\ wk[w].st = "idle"
    /\ \E i \in FeedIds, force \in BOOLEAN :
          wk' = [wk EXCEPT ![w] =
                    BeginProcess([IdleWorker EXCEPT !.st = "running", !.op = "process"], i, force)]
    /\ UNCHANGED <<articles, contents, sel, site, tbl, kw>>

\* lines 38-39
P_Check(w) ==
    /\ wk[w].st = "running" /\ wk[w].pc = "check"
    /\ wk' = [wk EXCEPT ![w] =
                 IF SkipsProcessing(wk[w].force, get_cached(contents, wk[w].item))
                 THEN EndProcess([wk[w] EXCEPT !.skipped = TRUE], "False")
                 ELSE [wk[w] EXCEPT !.pc = "prep"]]
    /\ UNCHANGED <<articles, contents, sel, site, tbl, kw>>

\* lines 41-94: translation, title marker, full-text fetch
P_Prepare(w) ==
    /\ wk[w].st = "running" /\ wk[w].pc = "prep"
    /\ \E t \in TitleJaChoices(wk[w].item), label \in Labels :
          wk' = [wk EXCEPT ![w] =
                    [wk[w] EXCEPT !.pc = "gen",
                                  !.title = add_bracket_title(t, label),
                                  !.did = @ \cup {"fetch"} \cup
                                          (IF is_foreign_article(wk[w].item)
                                           THEN {"translate"} ELSE {})]]
    /\ UNCHANGED <<articles, contents, sel, site, tbl, kw>>

\* lines 95-100: generate_all_explanations, then the empty-blocks test
P_Generate(w) ==
    /\ wk[w].st = "running" /\ wk[w].pc = "gen"
    /\ \E g \in GenOutcomes :
          LET r == generate_all_explanations(contents, wk[w].item, g)
              rec == [wk[w] EXCEPT !.did = IF r.generated THEN @ \cup {"generate"} ELSE @,
                                   !.genOut = IF r.generated THEN g ELSE "none",
                                   !.blocks = r.blocks]
          IN  /\ contents' = r.con
              /\ wk' = [wk EXCEPT ![w] =
                           IF r.raised THEN EndProcess(rec, "raised")
                           ELSE IF r.blocks = "empty" THEN EndProcess(rec, "False")
                           ELSE [rec EXCEPT !.pc = "save_article"]]
    /\ UNCHANGED <<articles, sel, site, tbl, kw>>

\* lines 103-104: save_article, False when the write fails
P_SaveArticle(w) ==
    /\ wk[w].st = "running" /\ wk[w].pc = "save_article"
    /\ \E ok \in BOOLEAN :
          IF ok
          THEN /\ articles' = save_article(articles, wk[w].item, wk[w].title)
               /\ wk' = [wk EXCEPT ![w] = [wk[w] EXCEPT !.pc = "save_cache"]]
          ELSE /\ articles' = articles
               /\ wk' = [wk EXCEPT ![w] = EndProcess([wk[w] EXCEPT !.saveFailed = TRUE], "False")]
    /\ UNCHANGED <<contents, sel, site, tbl, kw>>

\* lines 105-106: save_cache(item.id, blocks, personas); return True
P_SaveCache(w) ==
    /\ wk[w].st = "running" /\ wk[w].pc = "save_cache"
    /\ IF RaisesTypeError(ProcessCallKeywords)
       THEN /\ contents' = contents
            /\ wk' = [wk EXCEPT ![w] = EndProcess(wk[w], "raised")]
       ELSE /\ contents' = save_cache(contents, wk[w].item, wk[w].blocks)
            /\ wk' = [wk EXCEPT ![w] = EndProcess(wk[w], "True")]
    /\ UNCHANGED <<articles, sel, site, tbl, kw>>

\* the caller takes the result; the thread is free again
Return(w) ==
    /\ wk[w].st = "finished" /\ wk[w].handler = "none"
    /\ wk' = [wk EXCEPT ![w] = IdleWorker]
    /\ UNCHANGED <<articles, contents, sel, site, tbl, kw>>

----------------------------------------------------------------------------
(* process_new_rss_articles(rss_items, max_per_run) *)

MaxPerRunChoices == {SeedOneMaxPerRun, DefaultMaxPerRun}

Batches == DistinctSeqs(FeedIds, MaxBatchLen)

\* variant that keeps every fetched item as a candidate
UncachedKeepsAll(batch, con) == batch

Uncached(batch, con) ==
    LET NotCached(x) == x \notin get_cached_article_ids(con)
    IN  SelectSeq(batch, NotCached)

ItemsOf(ids) == [k \in 1..Len(ids) |-> NewsItem(ids[k])]
IdsOf(items) == [k \in 1..Len(items) |-> items[k].id]

\* variant that never switches to force mode
RunForceNever(uncached) == FALSE

\* line 240 / 237: the force flag of the run
RunForce(uncached) == uncached = <<>>

\* lines 228-240 in the thread record rec: empty batch returns 0; otherwise
\* the cached ids are read, the uncached items (or, when there is none, the
\* whole batch) are ranked
StartRun(rec, batch, m, con) ==
    LET fresh == [rec EXCEPT !.op = "batch", !.batch = batch, !.maxPerRun = m,
                             !.uncached = <<>>, !.ranked = <<>>, !.bforce = FALSE,
                             !.deduped = <<>>, !.toProcess = <<>>, !.idx = 0, !.count = 0,
                             !.log = <<>>, !.pc = "idle"]
    IN  IF batch = <<>>
        THEN {[fresh EXCEPT !.st = "finished", !.bpc = "done"]}
        ELSE LET uncached == Uncached(batch, con)
                 pool == IF uncached # <<>> THEN uncached ELSE batch
             IN  {[fresh EXCEPT !.st = "running", !.bpc = "dedup", !.uncached = uncached,
                                !.ranked = ranked, !.bforce = RunForce(uncached)] :
                     ranked \in rank_and_filter_articles(pool, m * RankFactor)}

B_Call(w) ==
    /\ wk[w].st = "idle"
    /\ \E batch \in Batches, m \in MaxPerRunChoices :
          \E rec \in StartRun(IdleWorker, batch, m, contents) :
              wk' = [wk EXCEPT ![w] = rec]
    /\ UNCHANGED <<articles, contents, sel, site, tbl, kw>>

\* lines 242-259: published titles are read, the ranking is deduplicated
\* and the diverse batch selected; line 262 enters the loop
B_Dedup(w) ==
    /\ wk[w].st = "running" /\ wk[w].op = "batch" /\ wk[w].bpc = "dedup"
    /\ LET deduped == Dedup(wk[w].ranked, articles)
           toProcess == IdsOf(select_diverse_batch(ItemsOf(deduped), wk[w].maxPerRun,
                                                   RunMaxPerSource, RunMaxPerCategory))
           rec == [wk[w] EXCEPT !.deduped = deduped, !.toProcess = toProcess,
                                !.idx = 1, !.count = 0, !.log = <<>>]
       IN  wk' = [wk EXCEPT ![w] =
                     IF toProcess = <<>>
                     THEN [rec EXCEPT !.bpc = "done", !.st = "finished"]
                     ELSE BeginProcess([rec EXCEPT !.bpc = "loop"], toProcess[1], rec.bforce)]
    /\ UNCHANGED <<articles, contents, sel, site, tbl, kw>>

\* variant of the loop that gives up at the first candidate that fails
LoopAfterAbort(rec) ==
    LET logged == [rec EXCEPT !.log = Append(@, [id |-> rec.item, ret |-> rec.ret,
                                                 force |-> rec.force]),
                              !.count = IF rec.ret = "True" THEN @ + 1 ELSE @]
    IN  IF rec.idx < Len(rec.toProcess) /\ rec.ret = "True"
        THEN [next |-> TRUE, rec |-> [logged EXCEPT !.idx = @ + 1]]
        ELSE [next |-> FALSE, rec |-> [logged EXCEPT !.bpc = "done", !.st = "finished", !.pc = "idle"]]

\* lines 262-271: the try/except around one candidate; the attempt is
\* logged (save_history.add_entry), True results are counted and the loop
\* goes on with the next candidate or returns count
LoopAfter(rec) ==
    LET logged == [rec EXCEPT !.log = Append(@, [id |-> rec.item, ret |-> rec.ret,
                                                 force |-> rec.force]),
                              !.count = IF rec.ret = "True" THEN @ + 1 ELSE @]
    IN  IF rec.idx < Len(rec.toProcess)
        THEN [next |-> TRUE, rec |-> [logged EXCEPT !.idx = @ + 1]]
        ELSE [next |-> FALSE, rec |-> [logged EXCEPT !.bpc = "done", !.st = "finished", !.pc = "idle"]]

B_Collect(w) ==
    /\ wk[w].st = "running" /\ wk[w].op = "batch" /\ wk[w].bpc = "loop"
    /\ wk[w].pc = "returned"
    /\ LET a == LoopAfter(wk[w])
       IN  wk' = [wk EXCEPT ![w] =
                     IF a.next
                     THEN BeginProcess(a.rec, a.rec.toProcess[a.rec.idx], a.rec.bforce)
                     ELSE a.rec]
    /\ UNCHANGED <<articles, contents, sel, site, tbl, kw>>

----------------------------------------------------------------------------
(* routers/news.py _do_create_manual_article_sync: generate, then save *)

ManualTitle == <<"m">>

CreateManualArticle(w) ==
    /\ wk[w].st = "idle"
    /\ \E g \in GenOutcomes, ok \in BOOLEAN :
          LET r == generate_all_explanations(contents, ManualId, g)
              rec == [IdleWorker EXCEPT !.st = "finished", !.op = "manual", !.item = ManualId,
                                        !.genOut = IF r.generated THEN g ELSE "none"]
          IN  /\ contents' = r.con
              /\ IF r.raised
                 THEN /\ articles' = articles
                      /\ wk' = [wk EXCEPT ![w] = [rec EXCEPT !.status = "raised"]]
                 ELSE IF r.blocks = "empty" \/ ~ok
                 THEN /\ articles' = articles
                      /\ wk' = [wk EXCEPT ![w] = [rec EXCEPT !.status = "error",
                                                             !.saveFailed = r.blocks # "empty"]]
                 ELSE /\ articles' = save_article(articles, ManualId, ManualTitle)
                      /\ wk' = [wk EXCEPT ![w] = [rec EXCEPT !.status = "ok"]]
    /\ UNCHANGED <<sel, site, tbl, kw>>

----------------------------------------------------------------------------
(* Stand-alone evaluation of _select_diverse_batch *)

SelSources == {"NHK", "Reuters"}
SelCategories == {"", "general", "world"}

\* candidate lists: the k-th candidate has identity k, any source and category
SelLists ==
    UNION {{[k \in 1..n |-> [id |-> k, source |-> sc[k][1], category |-> sc[k][2]]] :
                sc \in [1..n -> SelSources \X SelCategories]} : n \in 0..MaxSelLen}

SelIdle == [state |-> "off", items |-> <<>>, maxPerRun |-> 0, maxPerSource |-> 0,
            maxPerCategory |-> 0, out |-> <<>>]

ApplySelect ==
    /\ sel.state = "input"
    /\ sel' = [sel EXCEPT !.state = "output",
                          !.out = select_diverse_batch(sel.items, sel.maxPerRun,
                                                       sel.maxPerSource, sel.maxPerCategory)]
    /\ UNCHANGED <<articles, contents, wk, site, tbl, kw>>

----------------------------------------------------------------------------
(* keyword_scorer: the popularity lookup and the article score.  A text is *)
(* the sequence of its words, a phrase a sequence of words (an n-gram is   *)
(* its words joined by a blank); "nani", "towa", "itsu" stand for the      *)
(* first three QUESTION_WORDS.  Scores are counted in half points, hours   *)
(* are whole.                                                              *)

MaxSuggest == 2         \* most suggestions one answer of the service carries
MaxTextLen == 2         \* most words of a scored text
MaxNow == 2             \* latest hour of the clock

MaxKeywords == 30       \* extract_keywords: out[:30]
MaxNgrams == 20         \* make_ngrams: phrases[:20]
QuestionKeywords == 5   \* add_question_variants: keywords[:5]
QuestionWordsUsed == 3  \* add_question_variants: QUESTION_WORDS[:3]
Sampled1g == 8          \* score_keywords_autocomplete: keywords_1g[:8]
Sampled2g == 5          \* keywords_2g[:5]
SampledQ == 4           \* question_variants[:4]
Weight1g == 2           \* count * 1.0, in half points
Weight2g == 3           \* count * 1.5, in half points
WeightQ == 4            \* count * 2.0, in half points
HvWeight == 6           \* 3 per high-value keyword, in half points
TrendWeight == 10       \* 5 per trend keyword, in half points
RecencyMax == 30        \* 15.0, in half points; minus 0.5 per hour = 1 half point

Words == {"AI", "ai", "tax"}
HIGH_VALUE_KEYWORDS == {"AI"}
QUESTION_WORDS == <<"nani", "towa", "itsu", "doushite", "naze", "dou", "doko", "dare">>
TrendKeywordSets == {{}, {"Tax"}}

LowerWord(x) == IF x = "AI" THEN "ai" ELSE IF x = "Tax" THEN "tax" ELSE x

Texts == UNION {[1..n -> Words] : n \in 0..MaxTextLen}

\* extract_keywords: the words of the text, the first of each group of
\* words that are equal up to case, at most 30
RECURSIVE DedupLower(_, _)
DedupLower(words, seen) ==
    IF words = <<>> THEN <<>>
    ELSE IF LowerWord(Head(words)) \in seen THEN DedupLower(Tail(words), seen)
         ELSE <<Head(words)>> \o DedupLower(Tail(words), seen \cup {LowerWord(Head(words))})

extract_keywords(text) == Take(DedupLower(text, {}), MaxKeywords)

\* make_ngrams(keywords, n=2)
make_ngrams(keywords) ==
    Take([i \in 1..(IF Len(keywords) >= 2 THEN Len(keywords) - 1 ELSE 0) |->
              <<keywords[i], keywords[i + 1]>>], MaxNgrams)

\* add_question_variants: f"{kw} {qw}" for the first keywords and question words
add_question_variants(keywords) ==
    LET ks == Take(keywords, QuestionKeywords)
    IN  [j \in 1..(Len(ks) * QuestionWordsUsed) |->
            <<ks[((j - 1) \div QuestionWordsUsed) + 1],
              QUESTION_WORDS[((j - 1) % QuestionWordsUsed) + 1]>>]

Phrases ==
    UNION {{<<x>> : x \in Range(extract_keywords(t))}
           \cup Range(make_ngrams(extract_keywords(t)))
           \cup Range(add_question_variants(extract_keywords(t))) : t \in Texts}

\* hashlib.md5(query.encode("utf-8")).hexdigest()
cache_key(query) == <<"md5", query>>
CacheKeys == {cache_key(q) : q \in Phrases}

NoCount == 0 - 1
EmptyAutocompleteCache == [k \in CacheKeys |-> NoCount]

\* answers of the suggestion service to one request: the request fails
\* (network error, timeout), a status other than 200, a body that is no
\* JSON, JSON that is no list of two or more elements, a second element
\* that is no list, a list of n suggestions
ResponseKinds == {"unavailable", "status", "badjson", "notlist", "badsuggest", "ok"}
Responses ==
    {[kind |-> k, n |-> 0] : k \in ResponseKinds \ {"ok"}}
    \cup {[kind |-> "ok", n |-> n] : n \in 0..MaxSuggest}

FetchResult(ret, cache, called) == [ret |-> ret, cache |-> cache, called |-> called, raised |-> FALSE]

\* variant that also remembers the 0 of a failed request
fetch_autocomplete_count_caching_failures(cache, query, resp) ==
    LET key == cache_key(query)
        count == IF resp.kind = "ok" THEN resp.n ELSE 0
    IN  IF cache[key] # NoCount THEN FetchResult(cache[key], cache, FALSE)
        ELSE FetchResult(count, [cache EXCEPT ![key] = count], TRUE)

\* _fetch_autocomplete_count(query) against the cache, the service
\* answering resp
fetch_autocomplete_count(cache, query, resp) ==
    LET key == cache_key(query)
    IN  IF cache[key] # NoCount THEN FetchResult(cache[key], cache, FALSE)
        ELSE IF resp.kind \in {"unavailable", "badjson"}      \* except Exception: return 0
             THEN FetchResult(0, cache, TRUE)
        ELSE IF resp.kind = "status" THEN FetchResult(0, cache, TRUE)
        ELSE LET count == IF resp.kind = "ok" THEN resp.n ELSE 0
             IN  FetchResult(count, [cache EXCEPT ![key] = count], TRUE)

NoLookup == [query |-> <<>>, resp |-> [kind |-> "none", n |-> 0], ret |-> 0,
             called |-> FALSE, raised |-> FALSE, pre |-> EmptyAutocompleteCache]

\* the suggestion service as one evaluation of score_article sees it: down
\* for every request, or answering every phrase with as many suggestions as
\* the phrase has words
Services == {"down", "up"}
ServiceAnswer(svc, query) ==
    IF svc = "down" THEN [kind |-> "unavailable", n |-> 0]
    ELSE [kind |-> "ok", n |-> IF Len(query) <= MaxSuggest THEN Len(query) ELSE MaxSuggest]

\* one loop of score_keywords_autocomplete: score += count * weight
RECURSIVE SumCounts(_, _, _, _)
SumCounts(cache, phrases, weight, svc) ==
    IF phrases = <<>> THEN [sum |-> 0, cache |-> cache]
    ELSE LET r == fetch_autocomplete_count(cache, Head(phrases), ServiceAnswer(svc, Head(phrases)))
             rest == SumCounts(r.cache, Tail(phrases), weight, svc)
         IN  [sum |-> r.ret * weight + rest.sum, cache |-> rest.cache]

score_keywords_autocomplete(cache, keywords_1g, keywords_2g, question_variants, svc) ==
    LET a == SumCounts(cache, [i \in 1..Len(Take(keywords_1g, Sampled1g)) |-> <<keywords_1g[i]>>],
                       Weight1g, svc)
        b == SumCounts(a.cache, Take(keywords_2g, Sampled2g), Weight2g, svc)
        c == SumCounts(b.cache, Take(question_variants, SampledQ), WeightQ, svc)
    IN  [sum |-> a.sum + b.sum + c.sum, cache |-> c.cache]

\* published: None, a naive datetime (hour t) or a timezone-aware one, for
\* which now - published raises TypeError inside the try
PublishedValues ==
    {[kind |-> "none", t |-> 0], [kind |-> "aware", t |-> 0]}
    \cup {[kind |-> "naive", t |-> t] : t \in 0..MaxNow}

\* lines 193-205, in half points: max(0.0, 15.0 - hours_ago * 0.5)
recency_bonus(published, now) ==
    IF published.kind # "naive" THEN 0
    ELSE LET hours_ago == now - published.t
         IN  IF RecencyMax - hours_ago > 0 THEN RecencyMax - hours_ago ELSE 0

ScoreInputs == [text : Texts, trend_keywords : TrendKeywordSets, published : PublishedValues]

\* score_article(title, summary, category, trend_keywords, published) at
\* the hour now of datetime.now()
score_article(cache, in, now, svc) ==
    LET kw_1g == extract_keywords(in.text)
        ac == score_keywords_autocomplete(cache, kw_1g, make_ngrams(kw_1g),
                                          add_question_variants(kw_1g), svc)
        hv_bonus == HvWeight * Cardinality({k \in HIGH_VALUE_KEYWORDS : k \in Range(in.text)})
        trend_bonus == TrendWeight * Cardinality({k \in in.trend_keywords :
                           LowerWord(k) \in {LowerWord(x) : x \in Range(in.text)}})
    IN  [score |-> ac.sum + hv_bonus + trend_bonus + recency_bonus(in.published, now),
         cache |-> ac.cache]

NoEvaluation == [done |-> FALSE, in |-> [text |-> <<>>, trend_keywords |-> {},
                                         published |-> [kind |-> "none", t |-> 0]],
                 now |-> 0, score |-> 0]

Evaluation(in, now, score) == [done |-> TRUE, in |-> in, now |-> now, score |-> score]

\* a first evaluation of score_article
ScoreArticle ==
    /\ ~kw.prev.done
    /\ \E in \in ScoreInputs :
          LET r == score_article(kw.cache, in, kw.now, kw.service)
          IN  kw' = [kw EXCEPT !.cache = r.cache, !.prev = Evaluation(in, kw.now, r.score)]
    /\ UNCHANGED <<articles, contents, wk, sel, site, tbl>>

\* the clock of datetime.now() moves on
Tick ==
    /\ kw.now < MaxNow
    /\ kw' = [kw EXCEPT !.now = @ + 1]
    /\ UNCHANGED <<articles, contents, wk, sel, site, tbl>>

\* a later evaluation with the inputs of the first one
ScoreArticleAgain ==
    /\ kw.prev.done /\ ~kw.cur.done
    /\ LET r == score_article(kw.cache, kw.prev.in, kw.now, kw.service)
       IN  kw' = [kw EXCEPT !.cache = r.cache, !.cur = Evaluation(kw.prev.in, kw.now, r.score)]
    /\ UNCHANGED <<articles, contents, wk, sel, site, tbl>>

----------------------------------------------------------------------------
(* lightweight_filter on texts.  A text is a sequence of pieces: a blank,  *)
(* a filler of plain words, the high-value keyword "AI", the low-value     *)
(* word "score" in either case (the pattern has re.IGNORECASE) and         *)
(* "breaking", which the pattern breaking\s*:?\s*$ matches only at the end *)
(* of the title.  No keyword or pattern straddles two pieces.              *)

MaxTitlePieces == 2     \* most pieces of a title
MaxSummaryPieces == 2   \* most pieces of a summary

FilterPieces == {" ", "pad", "AI", "score", "SCORE", "breaking"}

\* len() of a piece
PieceLen(p) ==
    CASE p = " " -> 1
      [] p = "pad" -> 39
      [] p = "AI" -> 2
      [] p \in {"score", "SCORE"} -> 5
      [] OTHER -> 8

RECURSIVE TextLen(_)
TextLen(text) == IF text = <<>> THEN 0 ELSE PieceLen(Head(text)) + TextLen(Tail(text))

\* f"{title} {summary}"
FilterText(title, summary) == title \o <<" ">> \o summary

\* LOW_VALUE_TITLE_PATTERNS.search(title)
low_value_title(title) ==
    \E k \in 1..Len(title) :
        \/ title[k] \in {"score", "SCORE"}
        \/ title[k] = "breaking" /\ \A j \in (k + 1)..Len(title) : IsSpace(title[j])

\* variant that finds a keyword only when it occurs exactly once
any_high_value_keyword_once(text) ==
    Cardinality({k \in 1..Len(text) : text[k] \in HIGH_VALUE_KEYWORDS}) = 1

\* any(kw in text for kw in HIGH_VALUE_KEYWORDS)
any_high_value_keyword(text) == \E k \in 1..Len(text) : text[k] \in HIGH_VALUE_KEYWORDS

\* variant that measures the text without strip()
content_length_unstripped(text) == TextLen(text)

\* len(text.strip())
content_length(text) == TextLen(Strip(text))

\* lightweight_filter(title, summary, category), lines 46-57
lightweight_filter_text(title, summary, category) ==
    LET text == FilterText(title, summary)
    IN  lightweight_filter(content_length(text), low_value_title(title),
                           any_high_value_keyword(text), category)

FilterCategories == {"", "sports", "world"}

FilterTitles == UNION {[1..n -> FilterPieces] : n \in 0..MaxTitlePieces}
FilterSummaries == UNION {[1..n -> FilterPieces] : n \in 0..MaxSummaryPieces}

NoFilterCall == [state |-> "off", title |-> <<>>, summary |-> <<>>, category |-> "",
                 accepted |-> FALSE, longer |-> FALSE, before |-> FALSE]

\* lightweight_filter is called on an article
FilterArticle ==
    /\ kw.flt.state = "input"
    /\ kw' = [kw EXCEPT !.flt.state = "checked",
                        !.flt.accepted = lightweight_filter_text(kw.flt.title, kw.flt.summary,
                                                                 kw.flt.category)]
    /\ UNCHANGED <<articles, contents, wk, sel, site, tbl>>

\* the same article with one more occurrence of a high-value keyword at the
\* end of its title or of its summary is filtered
FilterArticleWithKeyword ==
    /\ kw.flt.state = "checked"
    /\ \E hv \in HIGH_VALUE_KEYWORDS, inTitle \in BOOLEAN :
          LET title == IF inTitle THEN Append(kw.flt.title, hv) ELSE kw.flt.title
              summary == IF inTitle THEN kw.flt.summary ELSE Append(kw.flt.summary, hv)
          IN  kw' = [kw EXCEPT !.flt.state = "checked", !.flt.longer = TRUE,
                               !.flt.title = title, !.flt.summary = summary,
                               !.flt.before = kw.flt.accepted,
                               !.flt.accepted = lightweight_filter_text(title, summary,
                                                                        kw.flt.category)]
    /\ Len(kw.flt.title) + Len(kw.flt.summary) < MaxTitlePieces + MaxSummaryPieces + 2
    /\ UNCHANGED <<articles, contents, wk, sel, site, tbl>>

----------------------------------------------------------------------------
(* The web process: NewsAggregator.get_news with its in-memory snapshot,   *)
(* the scheduler jobs of main.py and the admin routes of routers/news.py.  *)
(* A handler runs in one thread; the pipeline steps it makes are the       *)
(* actions above.  The caller of a route handler is the event loop, which  *)
(* for seed-one, force-add-one and the manual article waits at most 180    *)
(* seconds for the thread.                                                 *)

MaxFetchLen == 1        \* most items fetch_rss_news returns to a handler

SiteBatches == DistinctSeqs(FeedIds, MaxFetchLen)

TimedHandlers == {"seed_one", "force_add_one", "manual"}

EmptySnapshot == [i \in AllIds |-> NoArticle]
SnapshotEmpty(cache) == \A i \in AllIds : ~cache[i].present

\* article_cache.load_all_processed(processed_ids)
load_all_processed(arts, processed_ids) ==
    [i \in AllIds |-> IF arts[i].present /\ i \in processed_ids THEN arts[i] ELSE NoArticle]

\* the reload of get_news, lines 77-78 / 90-91
ReloadedSnapshot(arts, con) == load_all_processed(arts, get_cached_article_ids(con))

\* NewsAggregator.get_news(force_refresh=False): the snapshot is returned
\* as it is unless it is empty
get_news_cached(cache, arts, con) ==
    IF ~SnapshotEmpty(cache) THEN [news_cache |-> cache, reloaded |-> FALSE]
    ELSE [news_cache |-> ReloadedSnapshot(arts, con), reloaded |-> TRUE]

\* explanation_cache.delete_cache, article_cache.delete_article
delete_cache(con, id) == [con EXCEPT ![id] = "NoContent"]
delete_article(arts, id) == [arts EXCEPT ![id] = NoArticle]

\* what the caller of a route gets: a payload with a status and possibly a
\* message, an HTTP 503 (HTTPException), or an exception that leaves the
\* handler ("unhandled")
NoResponse == [state |-> "idle", handler |-> "none", status |-> "none", message |-> FALSE,
               timedout |-> FALSE]
Waiting(h) == [NoResponse EXCEPT !.state = "waiting", !.handler = h]
Payload(h, status, message) ==
    [NoResponse EXCEPT !.state = "sent", !.handler = h, !.status = status, !.message = message]

\* what _do_seed_one_sync returns on success, with the identities that were
\* published during the invocation and those among them whose call was not
\* forced (an identity without GeneratedContent)
NoArticleId == 0 - 1
NoSyncResult == [status |-> "none", article_id |-> NoArticleId, created |-> {}, fresh |-> {}]

\* a handler or job begins: nothing reloaded yet, nothing done
Begun(s, resp) ==
    [s EXCEPT !.resp = resp, !.done = "none", !.reloaded = FALSE, !.sync = NoSyncResult]

\* a handler thread ends with a payload or an exception; the caller gets it
\* unless it has already been answered by the timeout
Ended(s, h, status, message) ==
    [s EXCEPT !.resp = IF @.state = "waiting" THEN Payload(h, status, message) ELSE @,
              !.done = h]

HandlerThread(h, pos) ==
    [IdleWorker EXCEPT !.st = "running", !.op = "handler", !.handler = h, !.hpc = pos]

\* get_news(force_refresh=True), lines 84-89, in the thread record rec:
\* the feeds are fetched and process_new_rss_articles(news, max_per_run=5)
\* starts (an empty fetch goes straight to the reload)
EnterGetNewsForced(rec, con) ==
    UNION {StartRun([rec EXCEPT !.hpc = "gn_run"], batch, DefaultMaxPerRun, con) :
              batch \in SiteBatches}

\* a page is rendered (routers/news.py:61 and others) or, with RSS and AI
\* disabled, the start-up thread runs get_news(force_refresh=False)
PageView(w) ==
    /\ wk[w].st = "idle"
    /\ LET g == get_news_cached(site.news_cache, articles, contents)
       IN  site' = [Begun(site, NoResponse) EXCEPT !.news_cache = g.news_cache,
                                                  !.reloaded = g.reloaded,
                                                  !.done = "page_view"]
    /\ UNCHANGED <<articles, contents, wk, sel, tbl, kw>>

\* main.py:85-90, the interval job refresh_news
RefreshNewsJob(w) ==
    /\ wk[w].st = "idle" /\ ~site.disabled
    /\ LET g == get_news_cached(site.news_cache, articles, contents)
       IN  site' = [Begun(site, NoResponse) EXCEPT !.news_cache = g.news_cache,
                                                  !.reloaded = g.reloaded,
                                                  !.done = "refresh_news"]
    /\ UNCHANGED <<articles, contents, wk, sel, tbl, kw>>

\* main.py:30-32 and 98-108 (cron jobs), main.py:77 (start-up thread) and
\* routers/news.py:506: get_news(force_refresh=True)
ScheduledRssFetch(w) ==
    /\ wk[w].st = "idle" /\ ~site.disabled
    /\ \E rec \in EnterGetNewsForced(HandlerThread("scheduled_rss", "gn_run"), contents) :
          wk' = [wk EXCEPT ![w] = rec]
    /\ site' = Begun(site, NoResponse)
    /\ UNCHANGED <<articles, contents, sel, tbl, kw>>

\* routers/news.py:617-622
ClearArticleCache(w) ==
    /\ wk[w].st = "idle"
    /\ \E id \in FeedIds :
          /\ contents' = delete_cache(contents, id)
          /\ site' = [Ended(Begun(site, Waiting("clear_cache")), "clear_cache", "ok", TRUE)
                         EXCEPT !.target = id]
    /\ UNCHANGED <<articles, wk, sel, tbl, kw>>

\* routers/news.py:625-637: both rows are deleted, then
\* get_news(force_refresh=not is_rss_and_ai_disabled())
DeleteArticle(w) ==
    /\ wk[w].st = "idle"
    /\ \E id \in FeedIds :
          LET con == delete_cache(contents, id)
              arts == delete_article(articles, id)
              begun == [Begun(site, Waiting("delete")) EXCEPT !.target = id]
          IN  /\ contents' = con
              /\ articles' = arts
              /\ IF site.disabled
                 THEN LET g == get_news_cached(site.news_cache, arts, con)
                      IN  /\ site' = [Ended(begun, "delete", "ok", TRUE)
                                         EXCEPT !.news_cache = g.news_cache,
                                                !.reloaded = g.reloaded]
                          /\ wk' = wk
                 ELSE /\ site' = begun
                      /\ \E rec \in EnterGetNewsForced(
                                        [HandlerThread("delete", "gn_run") EXCEPT !.target = id],
                                        con) :
                            wk' = [wk EXCEPT ![w] = rec]
    /\ UNCHANGED <<sel, tbl, kw>>

\* routers/news.py:672-693 with _do_seed_one_sync 656-669, up to the start
\* of process_new_rss_articles(news, max_per_run=1)
SeedOne(w) ==
    /\ wk[w].st = "idle"
    /\ IF site.disabled
       THEN /\ site' = Ended(Begun(site, Waiting("seed_one")), "seed_one", "http503", TRUE)
            /\ wk' = wk
       ELSE \E batch \in SiteBatches :
               IF batch = <<>>
               THEN /\ site' = Ended(Begun(site, Waiting("seed_one")), "seed_one", "error", TRUE)
                    /\ wk' = wk
               ELSE /\ site' = Begun(site, Waiting("seed_one"))
                    /\ \E rec \in StartRun(HandlerThread("seed_one", "own_run"), batch,
                                           SeedOneMaxPerRun, contents) :
                          wk' = [wk EXCEPT ![w] = rec]
    /\ UNCHANGED <<articles, contents, sel, tbl, kw>>

\* routers/news.py:640-653, up to the start of
\* process_new_rss_articles(news, max_per_run=5)
SeedArticles(w) ==
    /\ wk[w].st = "idle"
    /\ IF site.disabled
       THEN /\ site' = Ended(Begun(site, Waiting("seed_articles")), "seed_articles",
                             "http503", TRUE)
            /\ wk' = wk
       ELSE /\ site' = Begun(site, Waiting("seed_articles"))
            /\ \E batch \in SiteBatches :
                  \E rec \in StartRun(HandlerThread("seed_articles", "own_run"), batch,
                                      DefaultMaxPerRun, contents) :
                      wk' = [wk EXCEPT ![w] = rec]
    /\ UNCHANGED <<articles, contents, sel, tbl, kw>>

\* routers/news.py:718-739 with _do_force_add_one_sync 696-710: the item
\* ranked first by the trends is any item of the fetch; its content row is
\* deleted and process_rss_to_site_article(item, force=True) is entered
ForceAddOne(w) ==
    /\ wk[w].st = "idle"
    /\ IF site.disabled
       THEN /\ site' = Ended(Begun(site, Waiting("force_add_one")), "force_add_one",
                             "http503", TRUE)
            /\ wk' = wk
            /\ contents' = contents
       ELSE \E batch \in SiteBatches :
               IF batch = <<>>
               THEN /\ site' = Ended(Begun(site, Waiting("force_add_one")), "force_add_one",
                                     "error", TRUE)
                    /\ wk' = wk
                    /\ contents' = contents
               ELSE \E item \in Range(batch) :
                       /\ site' = [Begun(site, Waiting("force_add_one")) EXCEPT !.target = item]
                       /\ contents' = delete_cache(contents, item)
                       /\ wk' = [wk EXCEPT ![w] =
                                    [BeginProcess([HandlerThread("force_add_one", "proc")
                                                       EXCEPT !.target = item], item, TRUE)
                                        EXCEPT !.preContent = "NoContent"]]
    /\ UNCHANGED <<articles, sel, tbl, kw>>

\* routers/news.py:585-614: the request is validated and
\* _do_create_manual_article_sync is handed to the thread pool
AdminArticleManual(w) ==
    /\ wk[w].st = "idle"
    /\ IF site.disabled
       THEN /\ site' = Ended(Begun(site, Waiting("manual")), "manual", "http503", TRUE)
            /\ wk' = wk
       ELSE /\ site' = Begun(site, Waiting("manual"))
            /\ wk' = [wk EXCEPT ![w] = [HandlerThread("manual", "manual_gen")
                                           EXCEPT !.item = ManualId]]
    /\ UNCHANGED <<articles, contents, sel, tbl, kw>>

\* _do_create_manual_article_sync, lines 563-581: generate, save the
\* article, then get_news(force_refresh=True); an exception leaves the
\* handler (no try around wait_for, line 607)
H_ManualGenerate(w) ==
    /\ wk[w].st = "running" /\ wk[w].handler = "manual" /\ wk[w].hpc = "manual_gen"
    /\ \E g \in GenOutcomes, ok \in BOOLEAN :
          LET r == generate_all_explanations(contents, ManualId, g)
              rec == [wk[w] EXCEPT !.genOut = IF r.generated THEN g ELSE "none"]
          IN  /\ contents' = r.con
              /\ IF r.raised
                 THEN /\ articles' = articles
                      /\ site' = Ended(site, "manual", "unhandled", FALSE)
                      /\ wk' = [wk EXCEPT ![w] = IdleWorker]
                 ELSE IF r.blocks = "empty" \/ ~ok
                 THEN /\ articles' = articles
                      /\ site' = Ended(site, "manual", "error", TRUE)
                      /\ wk' = [wk EXCEPT ![w] = IdleWorker]
                 ELSE /\ articles' = save_article(articles, ManualId, ManualTitle)
                      /\ site' = site
                      /\ \E rec2 \in EnterGetNewsForced(rec, r.con) :
                            wk' = [wk EXCEPT ![w] = rec2]
    /\ UNCHANGED <<sel, tbl, kw>>

\* the pipeline run of seed-one (lines 663-666) or seed-articles (650-651)
\* has returned its count
H_OwnRunDone(w) ==
    /\ wk[w].handler \in {"seed_one", "seed_articles"} /\ wk[w].hpc = "own_run"
    /\ wk[w].op = "batch" /\ wk[w].bpc = "done"
    /\ IF wk[w].handler = "seed_one" /\ wk[w].count <= 0
       THEN /\ site' = Ended(site, "seed_one", "none", TRUE)
            /\ wk' = [wk EXCEPT ![w] = IdleWorker]
       ELSE /\ site' = site
            /\ \E rec \in EnterGetNewsForced([wk[w] EXCEPT !.added = wk[w].count,
                                                           !.ownLog = wk[w].log], contents) :
                  wk' = [wk EXCEPT ![w] = rec]
    /\ UNCHANGED <<articles, contents, sel, tbl, kw>>

\* process_rss_to_site_article(item, force=True) of force-add-one has
\* returned or raised (lines 710-715, 736-739)
H_ProcReturned(w) ==
    /\ wk[w].handler = "force_add_one" /\ wk[w].hpc = "proc" /\ wk[w].pc = "returned"
    /\ IF wk[w].ret = "True"
       THEN /\ site' = site
            /\ \E rec \in EnterGetNewsForced(wk[w], contents) :
                  wk' = [wk EXCEPT ![w] = rec]
       ELSE /\ site' = Ended(site, "force_add_one", "error", TRUE)
            /\ wk' = [wk EXCEPT ![w] = IdleWorker]
    /\ UNCHANGED <<articles, contents, sel, tbl, kw>>

\* the payload a handler returns after its get_news(force_refresh=True)
PayloadAfterGetNews(h, rec, arts, cache) ==
    CASE h = "delete" -> [status |-> "ok", message |-> TRUE]
      [] h = "force_add_one" ->
            IF cache[rec.target].present \/ arts[rec.target].present
            THEN [status |-> "ok", message |-> FALSE]
            ELSE [status |-> "error", message |-> TRUE]
      [] OTHER -> [status |-> "ok", message |-> FALSE]

\* the candidates a handler thread has published, oldest first: those of
\* its own run, then those of the run inside get_news
PublishedLog(rec) ==
    LET IsPublished(e) == e.ret = "True"
    IN  SelectSeq(rec.ownLog \o rec.log, IsPublished)

\* updated[0].id, lines 667-668: load_all orders by added_at DESC and
\* save_article (INSERT OR REPLACE) renews added_at, so the first article of
\* the snapshot is the one saved last
first_of_snapshot(cache, published) ==
    IF published # <<>> /\ cache[published[Len(published)].id].present
    THEN published[Len(published)].id
    ELSE IF \E i \in AllIds : cache[i].present
         THEN CHOOSE i \in AllIds : cache[i].present
         ELSE NoArticleId

\* _do_seed_one_sync, lines 666-669
SeedOneResult(rec, cache) ==
    LET published == PublishedLog(rec)
    IN  [status |-> "ok", article_id |-> first_of_snapshot(cache, published),
         created |-> {published[k].id : k \in 1..Len(published)},
         fresh |-> {published[k].id : k \in {j \in 1..Len(published) : ~published[j].force}}]

\* get_news(force_refresh=True), lines 90-93: the run inside get_news is
\* over, the snapshot is reloaded and the handler returns
H_GetNewsRunDone(w) ==
    /\ wk[w].handler # "none" /\ wk[w].hpc = "gn_run"
    /\ wk[w].op = "batch" /\ wk[w].bpc = "done"
    /\ LET cache == ReloadedSnapshot(articles, contents)
           pl == PayloadAfterGetNews(wk[w].handler, wk[w], articles, cache)
       IN  site' = [Ended(site, wk[w].handler, pl.status, pl.message)
                       EXCEPT !.news_cache = cache, !.reloaded = TRUE,
                              !.sync = IF wk[w].handler = "seed_one"
                                       THEN SeedOneResult(wk[w], cache) ELSE @]
    /\ wk' = [wk EXCEPT ![w] = IdleWorker]
    /\ UNCHANGED <<articles, contents, sel, tbl, kw>>

\* variant in which the timeout cancels the thread
TimeoutEffectCancels(rec) == IdleWorker

\* asyncio.wait_for(loop.run_in_executor(...), timeout=180.0) expires: the
\* future is cancelled, the thread that runs the function is not
TimeoutEffect(rec) == rec

\* lines 687-689 and 733-735: the caller gets the timed-out payload; the
\* manual handler has no except clause and the TimeoutError leaves it
H_Timeout(w) ==
    /\ site.resp.state = "waiting" /\ site.resp.handler \in TimedHandlers
    /\ wk[w].st = "running" /\ wk[w].handler = site.resp.handler
    /\ site' = [site EXCEPT !.resp =
                   [Payload(site.resp.handler,
                            IF site.resp.handler = "manual" THEN "unhandled" ELSE "error",
                            site.resp.handler # "manual") EXCEPT !.timedout = TRUE]]
    /\ wk' = [wk EXCEPT ![w] = TimeoutEffect(wk[w])]
    /\ UNCHANGED <<articles, contents, sel, tbl, kw>>

----------------------------------------------------------------------------
(* Values of the variables a specification does not use *)

SiteIdle == [disabled |-> FALSE, news_cache |-> EmptySnapshot, reloaded |-> FALSE,
             done |-> "none", resp |-> NoResponse, target |-> 0, sync |-> NoSyncResult]
TblIdle == [articles |-> {}, contents |-> {}, last |-> [op |-> "none", id |-> 0, existed |-> FALSE]]
KwIdle == [cache |-> EmptyAutocompleteCache, last |-> NoLookup, now |-> 0, service |-> "up",
           prev |-> NoEvaluation, cur |-> NoEvaluation, flt |-> NoFilterCall]

----------------------------------------------------------------------------
(* Persisted states the stores start in: per feed identity nothing, an     *)
(* article without content (seed_articles stores the raw feed title), or   *)
(* an article with content of one of the three kinds                       *)

StoreOptions(i) ==
    {<<NoArticle, "NoContent">>,
     <<StoredArticle(FeedTitle(i)), "NoContent">>}
    \cup {<<StoredArticle(add_bracket_title(FeedTitle(i), "x")), k>> : k \in BlockKinds}

StoreInit ==
    \E pick \in [FeedIds -> UNION {StoreOptions(i) : i \in FeedIds}] :
        /\ \A i \in FeedIds : pick[i] \in StoreOptions(i)
        /\ articles = [i \in AllIds |-> IF i = ManualId THEN NoArticle ELSE pick[i][1]]
        /\ contents = [i \in AllIds |-> IF i = ManualId THEN "NoContent" ELSE pick[i][2]]

Init ==
    /\ StoreInit
    /\ wk = [w \in Workers |-> IdleWorker]
    /\ sel = SelIdle
    /\ site = SiteIdle
    /\ tbl = TblIdle
    /\ kw = KwIdle

SeqWorkers == {1}

Next ==
    \/ \E w \in SeqWorkers : CallProcess(w)
    \/ \E w \in SeqWorkers : P_Check(w)
    \/ \E w \in SeqWorkers : P_Prepare(w)
    \/ \E w \in SeqWorkers : P_Generate(w)
    \/ \E w \in SeqWorkers : P_SaveArticle(w)
    \/ \E w \in SeqWorkers : P_SaveCache(w)
    \/ \E w \in SeqWorkers : B_Call(w)
    \/ \E w \in SeqWorkers : B_Dedup(w)
    \/ \E w \in SeqWorkers : B_Collect(w)
    \/ \E w \in SeqWorkers : CreateManualArticle(w)
    \/ \E w \in SeqWorkers : Return(w)

Spec == Init /\ [][Next]_vars

InitSelect ==
    /\ articles = [i \in AllIds |-> NoArticle]
    /\ contents = [i \in AllIds |-> "NoContent"]
    /\ wk = [w \in Workers |-> IdleWorker]
    /\ site = SiteIdle
    /\ tbl = TblIdle
    /\ kw = KwIdle
    /\ \E items \in SelLists, m \in 0..MaxSelCount, k1 \in 1..MaxSelCap, k2 \in 1..MaxSelCap :
          sel = [state |-> "input", items |-> items, maxPerRun |-> m, maxPerSource |-> k1,
                 maxPerCategory |-> k2, out |-> <<>>]

NextSelect == ApplySelect

SpecSelect == InitSelect /\ [][NextSelect]_vars

----------------------------------------------------------------------------
(* The two tables at the level of rows.  articles(id PRIMARY KEY, title,   *)
(* ...) and explanation_cache(article_id PRIMARY KEY, inline_blocks, ...)  *)
(* are sets of rows; every writer is one statement on them.  On Firestore  *)
(* a row is the document collection.document(id).                          *)

TblIds == {0, 1, 2}
TblTitles == {FeedTitle(1), add_bracket_title(FeedTitle(1), "x")}
TblBlocks == {"good", "bad"}

ArticleRow(id, title) == [id |-> id, title |-> title]
ContentRow(id, blocks) == [id |-> id, blocks |-> blocks]

HasRow(rows, id) == \E r \in rows : r.id = id

\* variant of save_article with a plain INSERT and no conflict clause
save_article_rows_plain_insert(rows, id, title) == rows \cup {ArticleRow(id, title)}

\* article_cache.save_article: INSERT OR REPLACE INTO articles /
\* document(id).set(...)
save_article_rows(rows, id, title) ==
    {r \in rows : r.id # id} \cup {ArticleRow(id, title)}

\* article_cache.save_articles_batch, one item: INSERT OR IGNORE INTO
\* articles / if not ref.get().exists: ref.set(data)
save_articles_batch_rows(rows, id, title) ==
    IF HasRow(rows, id) THEN rows ELSE rows \cup {ArticleRow(id, title)}

\* article_cache.delete_article: DELETE FROM articles WHERE id = ?
delete_article_rows(rows, id) == {r \in rows : r.id # id}

\* explanation_cache.save_cache: INSERT OR REPLACE INTO explanation_cache /
\* document(article_id).set(doc_data)
save_cache_rows(rows, id, blocks) ==
    {r \in rows : r.id # id} \cup {ContentRow(id, blocks)}

\* explanation_cache.delete_cache: DELETE FROM explanation_cache WHERE
\* article_id = ?
delete_cache_rows(rows, id) == {r \in rows : r.id # id}

TblLast(op, id, existed) == [op |-> op, id |-> id, existed |-> existed]

\* process_rss_to_site_article line 103 and the manual handler line 579
T_SaveArticle ==
    \E id \in TblIds, title \in TblTitles :
        tbl' = [articles |-> save_article_rows(tbl.articles, id, title),
                contents |-> tbl.contents,
                last |-> TblLast("save_article", id, HasRow(tbl.articles, id))]

\* seed_articles line 64, item by item.  On Firestore the existence test
\* and the set are two requests, so that a document created in between is
\* overwritten by the set
T_SaveArticlesBatch ==
    \E id \in TblIds, title \in TblTitles, raced \in BOOLEAN :
        tbl' = [articles |-> IF raced THEN save_article_rows(tbl.articles, id, title)
                             ELSE save_articles_batch_rows(tbl.articles, id, title),
                contents |-> tbl.contents,
                last |-> TblLast("save_articles_batch", id, HasRow(tbl.articles, id))]

\* api_delete_article line 631
T_DeleteArticle ==
    \E id \in TblIds :
        tbl' = [articles |-> delete_article_rows(tbl.articles, id),
                contents |-> tbl.contents,
                last |-> TblLast("delete_article", id, HasRow(tbl.articles, id))]

\* process_rss_to_site_article line 105
T_SaveCache ==
    \E id \in TblIds, blocks \in TblBlocks :
        tbl' = [articles |-> tbl.articles,
                contents |-> save_cache_rows(tbl.contents, id, blocks),
                last |-> TblLast("save_cache", id, HasRow(tbl.contents, id))]

\* api_delete_article line 630, api_clear_article_cache line 621,
\* _do_force_add_one_sync line 709
T_DeleteCache ==
    \E id \in TblIds :
        tbl' = [articles |-> tbl.articles,
                contents |-> delete_cache_rows(tbl.contents, id),
                last |-> TblLast("delete_cache", id, HasRow(tbl.contents, id))]

\* tables as the PRIMARY KEY constraint leaves them on disk
TblStates ==
    {t \in [articles : SUBSET {ArticleRow(i, x) : i \in TblIds, x \in TblTitles},
            contents : SUBSET {ContentRow(i, b) : i \in TblIds, b \in TblBlocks}] :
        /\ \A r1, r2 \in t.articles : r1.id = r2.id => r1 = r2
        /\ \A r1, r2 \in t.contents : r1.id = r2.id => r1 = r2}

InitStore ==
    /\ articles = [i \in AllIds |-> NoArticle]
    /\ contents = [i \in AllIds |-> "NoContent"]
    /\ wk = [w \in Workers |-> IdleWorker]
    /\ sel = SelIdle
    /\ site = SiteIdle
    /\ kw = KwIdle
    /\ \E t \in TblStates :
          tbl = [articles |-> t.articles, contents |-> t.contents,
                 last |-> TblLast("none", 0, FALSE)]

NextStore ==
    /\ \/ T_SaveArticle
       \/ T_SaveArticlesBatch
       \/ T_DeleteArticle
       \/ T_SaveCache
       \/ T_DeleteCache
    /\ UNCHANGED <<articles, contents, wk, sel, site, kw>>

SpecStore == InitStore /\ [][NextStore]_vars

\* the popularity lookup on its own: the queries of one article
PopQueries == {<<"ai">>, <<"ai", "tax">>, <<"tax", "nani">>}

LookupQuery ==
    /\ \E q \in PopQueries, resp \in Responses :
          LET r == fetch_autocomplete_count(kw.cache, q, resp)
          IN  kw' = [kw EXCEPT !.cache = r.cache,
                               !.last = [query |-> q, resp |-> resp, ret |-> r.ret,
                                         called |-> r.called, raised |-> r.raised,
                                         pre |-> kw.cache]]
    /\ UNCHANGED <<articles, contents, wk, sel, site, tbl>>

InitPop ==
    /\ articles = [i \in AllIds |-> NoArticle]
    /\ contents = [i \in AllIds |-> "NoContent"]
    /\ wk = [w \in Workers |-> IdleWorker]
    /\ sel = SelIdle
    /\ site = SiteIdle
    /\ tbl = TblIdle
    /\ kw = KwIdle

NextPop == LookupQuery

SpecPop == InitPop /\ [][NextPop]_vars

InitScore ==
    /\ articles = [i \in AllIds |-> NoArticle]
    /\ contents = [i \in AllIds |-> "NoContent"]
    /\ wk = [w \in Workers |-> IdleWorker]
    /\ sel = SelIdle
    /\ site = SiteIdle
    /\ tbl = TblIdle
    /\ \E svc \in Services : kw = [KwIdle EXCEPT !.service = svc]

NextScore ==
    \/ ScoreArticle
    \/ Tick
    \/ ScoreArticleAgain

SpecScore == InitScore /\ [][NextScore]_vars

\* two threads call process_rss_to_site_article for the same candidate at
\* overlapping times (route handlers run in the thread pool,
\* _seed_if_needed and the scheduler jobs in threads of their own)
ConcIds == {1, 2}

ConcCall(w) ==
    /\ wk[w].st = "idle"
    /\ \E i \in ConcIds, force \in BOOLEAN :
          /\ \A v \in Workers \ {w} :
                wk[v].st = "idle" \/ (wk[v].st = "running" /\ wk[v].item = i)
          /\ wk' = [wk EXCEPT ![w] =
                       BeginProcess([IdleWorker EXCEPT !.st = "running", !.op = "process"],
                                    i, force)]
    /\ UNCHANGED <<articles, contents, sel, site, tbl, kw>>

\* the steps of one invocation
ProcessStep(w) ==
    \/ P_Check(w)
    \/ P_Prepare(w)
    \/ P_Generate(w)
    \/ P_SaveArticle(w)
    \/ P_SaveCache(w)

InitConc ==
    /\ \E pick \in [ConcIds -> UNION {StoreOptions(i) : i \in ConcIds}] :
          /\ \A i \in ConcIds : pick[i] \in StoreOptions(i)
          /\ articles = [i \in AllIds |-> IF i \in ConcIds THEN pick[i][1] ELSE NoArticle]
          /\ contents = [i \in AllIds |-> IF i \in ConcIds THEN pick[i][2] ELSE "NoContent"]
    /\ wk = [w \in Workers |-> IdleWorker]
    /\ sel = SelIdle
    /\ site = SiteIdle
    /\ tbl = TblIdle
    /\ kw = KwIdle

NextConc ==
    \/ \E w \in Workers : ConcCall(w)
    \/ \E w \in Workers : ProcessStep(w)
    \/ \E w \in Workers : Return(w)

\* no invocation takes a lock or waits for the other one, and the threads
\* are scheduled by the operating system: a thread that can take a step
\* eventually takes it
SpecConc == InitConc /\ [][NextConc]_vars /\ \A w \in Workers : WF_vars(ProcessStep(w))

\* the web process with one handler thread at a time
SiteIds == {1, 2}

InitSite ==
    /\ \E pick \in [SiteIds -> UNION {StoreOptions(i) : i \in SiteIds}] :
          /\ \A i \in SiteIds : pick[i] \in StoreOptions(i)
          /\ articles = [i \in AllIds |-> IF i \in SiteIds THEN pick[i][1] ELSE NoArticle]
          /\ contents = [i \in AllIds |-> IF i \in SiteIds THEN pick[i][2] ELSE "NoContent"]
    /\ wk = [w \in Workers |-> IdleWorker]
    /\ sel = SelIdle
    /\ \E d \in BOOLEAN : site = [SiteIdle EXCEPT !.disabled = d]
    /\ tbl = TblIdle
    /\ kw = KwIdle

\* the steps of a handler thread
ThreadStep(w) ==
    \/ ProcessStep(w)
    \/ B_Dedup(w)
    \/ B_Collect(w)
    \/ H_ManualGenerate(w)
    \/ H_OwnRunDone(w)
    \/ H_ProcReturned(w)
    \/ H_GetNewsRunDone(w)

NextSite ==
    \/ \E w \in SeqWorkers : PageView(w)
    \/ \E w \in SeqWorkers : RefreshNewsJob(w)
    \/ \E w \in SeqWorkers : ScheduledRssFetch(w)
    \/ \E w \in SeqWorkers : ClearArticleCache(w)
    \/ \E w \in SeqWorkers : DeleteArticle(w)
    \/ \E w \in SeqWorkers : SeedOne(w)
    \/ \E w \in SeqWorkers : SeedArticles(w)
    \/ \E w \in SeqWorkers : ForceAddOne(w)
    \/ \E w \in SeqWorkers : AdminArticleManual(w)
    \/ \E w \in SeqWorkers : ThreadStep(w)
    \/ \E w \in SeqWorkers : H_Timeout(w)

SpecSite == InitSite /\ [][NextSite]_vars

\* the two routes that answer after a timeout, RSS/AI processing enabled
TimedThreadStep(w) ==
    \/ ProcessStep(w)
    \/ B_Collect(w)
    \/ H_OwnRunDone(w)
    \/ H_ProcReturned(w)
    \/ H_GetNewsRunDone(w)

\* the thread stands before lines 242-259 of process_new_rss_articles
DedupPending(w) == wk[w].st = "running" /\ wk[w].op = "batch" /\ wk[w].bpc = "dedup"

InitTimeout == InitSite /\ ~site.disabled

NextTimeout ==
    \/ \E w \in SeqWorkers : SeedOne(w)
    \/ \E w \in SeqWorkers : ForceAddOne(w)
    \/ \E w \in SeqWorkers : B_Dedup(w)
    \/ \E w \in SeqWorkers : TimedThreadStep(w)
    \/ \E w \in SeqWorkers : H_Timeout(w)

\* The executor thread is not cancelled and the operating system schedules
\* it: a step it can take is eventually taken.  B_Dedup(w) is enabled
\* exactly when DedupPending(w) holds and every B_Dedup(w) step ends it, so
\* weak fairness of B_Dedup(w) is []<>~DedupPending(w).
SpecTimeout ==
    /\ InitTimeout /\ [][NextTimeout]_vars
    /\ \A w \in SeqWorkers : WF_vars(TimedThreadStep(w))
    /\ \A w \in SeqWorkers : []<>~DedupPending(w)

\* lightweight_filter on every text of the bounds
InitFilter ==
    /\ articles = [i \in AllIds |-> NoArticle]
    /\ contents = [i \in AllIds |-> "NoContent"]
    /\ wk = [w \in Workers |-> IdleWorker]
    /\ sel = SelIdle
    /\ site = SiteIdle
    /\ tbl = TblIdle
    /\ \E title \in FilterTitles, summary \in FilterSummaries, category \in FilterCategories :
          kw = [KwIdle EXCEPT !.flt = [NoFilterCall EXCEPT !.state = "input", !.title = title,
                                                           !.summary = summary,
                                                           !.category = category]]

NextFilter == FilterArticle \/ FilterArticleWithKeyword

SpecFilter == InitFilter /\ [][NextFilter]_vars

----------------------------------------------------------------------------
(* Properties *)

\* a call of process_rss_to_site_article by worker w has just returned or raised
Returned(w) == wk[w].pc = "returned"

C2_EmptyBlocksReturnFalse ==
    \A w \in Workers :
        (Returned(w) /\ wk[w].genOut = "empty")
        => /\ wk[w].ret = "False"
           /\ articles[wk[w].item] = wk[w].preArticle
           /\ contents[wk[w].item] = wk[w].preContent

\* C3: when save_article fails the call returns False and no GeneratedContent
\* exists for the identity afterwards, so a later non-forced call is not
\* Skipped.
C3_SaveFailureLeavesUnprocessed ==
    \A w \in Workers :
        (Returned(w) /\ wk[w].saveFailed)
        => /\ wk[w].ret = "False"
           /\ get_cached(contents, wk[w].item) = "None"
           /\ ~SkipsProcessing(FALSE, get_cached(contents, wk[w].item))

C5_ForceRegenerates ==
    \A w \in Workers :
        (Returned(w) /\ wk[w].force /\ Readable(wk[w].preContent))
        => (~wk[w].skipped /\ "generate" \in wk[w].did)

\* the state right after the dedup of a run, before any candidate is processed
AfterDedup(w) ==
    /\ wk[w].op = "batch" /\ wk[w].batch # <<>>
    /\ \/ wk[w].bpc = "loop" /\ wk[w].idx = 1 /\ wk[w].pc = "check"
       \/ wk[w].bpc = "done" /\ wk[w].toProcess = <<>>

KeyOf(i) == normalize_title_for_dedup(FeedTitle(i))
InHistory(key) == \E j \in AllIds : articles[j].present /\ normalize_title_for_dedup(articles[j].title) = key

\* C6: the deduplicated list holds no two candidates with the same
\* NormalizedTitleKey and none whose key is the key of a published title;
\* of the ranked candidates with one key exactly the first is kept.
C6_DedupComplete ==
    \A w \in Workers :
        AfterDedup(w) =>
            LET d == wk[w].deduped
                r == wk[w].ranked
            IN  /\ \A a, b \in 1..Len(d) : a # b => KeyOf(d[a]) # KeyOf(d[b])
                /\ \A a \in 1..Len(d) : ~InHistory(KeyOf(d[a]))
                /\ \A p \in 1..Len(r) :
                      (r[p] \in Range(d)) <=>
                          /\ ~InHistory(KeyOf(r[p]))
                          /\ \A q \in 1..(p - 1) : KeyOf(r[q]) # KeyOf(r[p])

C6_Witness ==
    \E w \in Workers :
        /\ AfterDedup(w)
        /\ Len(wk[w].ranked) = 2 /\ Len(wk[w].deduped) = 1
        /\ KeyOf(wk[w].ranked[1]) = KeyOf(wk[w].ranked[2])

\* caps on a selection, a missing category counting as the default one
CapsRespected(chosen, k1, k2) ==
    /\ \A a \in 1..Len(chosen) : CountSource(chosen, chosen[a].source) <= k1
    /\ \A a \in 1..Len(chosen) : CountCategory(chosen, CatOf(chosen[a])) <= k2

\* a candidate of the pool outside chosen that fits within the caps
CapRespectingLeft(items, chosen, k1, k2) ==
    \E k \in 1..Len(items) :
        /\ items[k] \notin Range(chosen)
        /\ CapsRespected(Append(chosen, items[k]), k1, k2)

\* C7 as stated: a selection from a pool of at least max_count candidates
\* respects both caps; caps are exceeded only when the pool is smaller than
\* max_count.
C7_CapsUnlessSmallPool ==
    sel.state = "output" =>
        \/ CapsRespected(sel.out, sel.maxPerSource, sel.maxPerCategory)
        \/ Len(sel.items) < sel.maxPerRun

\* C7 amended: caps are exceeded only when the candidates that fit within
\* the caps run out before max_count is reached, whatever the size of the
\* pool: the selection then starts with a cap-respecting part shorter than
\* max_count to which no further candidate of the pool can be added within
\* the caps.
C7_CapsUnlessExhausted ==
    sel.state = "output" =>
        \/ CapsRespected(sel.out, sel.maxPerSource, sel.maxPerCategory)
        \/ \E n \in 0..(Len(sel.out) - 1) :
              /\ n < sel.maxPerRun
              /\ CapsRespected(Take(sel.out, n), sel.maxPerSource, sel.maxPerCategory)
              /\ ~CapRespectingLeft(sel.items, Take(sel.out, n), sel.maxPerSource,
                                    sel.maxPerCategory)

C7_Witness ==
    /\ sel.state = "output"
    /\ Len(sel.items) >= sel.maxPerRun
    /\ ~CapsRespected(sel.out, sel.maxPerSource, sel.maxPerCategory)

\* a run of process_new_rss_articles by worker w has returned
RunDone(w) == wk[w].op = "batch" /\ wk[w].bpc = "done"

\* no candidate without GeneratedContent is left after the dedup
ZeroNewCandidates(w) ==
    \A k \in 1..Len(wk[w].deduped) : wk[w].deduped[k] \notin Range(wk[w].uncached)

\* C8 as stated: a run on a non-empty batch whose dedup leaves zero new
\* candidates makes at least one process(..., force=True) call.
C8_FallbackAlwaysProcesses ==
    \A w \in Workers :
        (RunDone(w) /\ wk[w].batch # <<>> /\ ZeroNewCandidates(w))
        => \E k \in 1..Len(wk[w].log) : wk[w].log[k].force

\* C8 amended: a run on a non-empty batch in which every item already has a
\* content row ranks the entire batch and makes every process call of the
\* run with force=True, one per selected candidate; at least one call is
\* made whenever a candidate survives the title dedup.
C8_FallbackWhenAllCached ==
    \A w \in Workers :
        (RunDone(w) /\ wk[w].batch # <<>> /\ wk[w].uncached = <<>>)
        => /\ wk[w].bforce
           /\ Range(wk[w].ranked) \subseteq Range(wk[w].batch)
           /\ Len(wk[w].log) = Len(wk[w].toProcess)
           /\ \A k \in 1..Len(wk[w].log) : wk[w].log[k].force
           /\ wk[w].deduped # <<>> => Len(wk[w].log) >= 1

C8_Witness ==
    \E w \in Workers :
        /\ RunDone(w) /\ wk[w].batch # <<>> /\ wk[w].uncached = <<>>
        /\ Len(wk[w].log) >= 1 /\ wk[w].log[1].force

\* C9: a non-forced call on an identity whose GeneratedContent get_cached
\* reports ends in its first step: it returns False, both stores stay as
\* they are and no translation, fetch or generation call is made.
C9_SkippedIsNoOp ==
    [][\A w \in Workers :
          (/\ wk[w].st = "running" /\ wk[w].pc = "check"
           /\ ~wk[w].force /\ Readable(contents[wk[w].item])
           /\ wk'[w] # wk[w])
          => /\ wk'[w].pc = "returned" /\ wk'[w].ret = "False"
             /\ wk'[w].did = {}
             /\ articles' = articles /\ contents' = contents]_vars

C9_Witness ==
    \E w \in Workers :
        /\ Returned(w) /\ wk[w].skipped /\ wk[w].ret = "False"
        /\ ~wk[w].force /\ Readable(contents[wk[w].item])

\* a run of process_new_rss_articles by worker w has read the cached ids and
\* ranked its pool, and no store has changed since
AfterRanking(w) == wk[w].op = "batch" /\ wk[w].st = "running" /\ wk[w].bpc = "dedup"

\* the candidates the run ranks: the uncached items or, when there is none,
\* the whole batch
RunPool(w) == IF wk[w].uncached # <<>> THEN wk[w].uncached ELSE wk[w].batch

\* C11: an identity whose stored GeneratedContent is the fixed fallback is
\* unprocessed on the next read: get_cached reports it absent, a non-forced
\* process call on it does not skip, and a process_new_rss_articles run
\* whose batch holds it keeps it among the candidates it ranks.
C11_BadFallbackStaysEligible ==
    \A w \in Workers :
        /\ \A i \in AllIds : contents[i] = "bad" => get_cached(contents, i) = "None"
        /\ (Returned(w) /\ ~wk[w].force /\ wk[w].preContent = "bad") => ~wk[w].skipped
        /\ AfterRanking(w) =>
              \A k \in 1..Len(wk[w].batch) :
                  contents[wk[w].batch[k]] = "bad" => wk[w].batch[k] \in Range(RunPool(w))

\* C10: a failing candidate does not end the run: every selected candidate
\* is processed, in order, and the returned count is the number of
\* candidates whose processing returned True.
C10_BatchNotAborted ==
    \A w \in Workers :
        (RunDone(w) /\ wk[w].batch # <<>>)
        => /\ Len(wk[w].log) = Len(wk[w].toProcess)
           /\ \A k \in 1..Len(wk[w].log) : wk[w].log[k].id = wk[w].toProcess[k]
           /\ wk[w].count = Cardinality({k \in 1..Len(wk[w].log) : wk[w].log[k].ret = "True"})

C10_Witness ==
    \E w \in Workers :
        /\ RunDone(w)
        /\ Len(wk[w].log) >= 2
        /\ wk[w].log[1].ret \in {"False", "raised"}
        /\ wk[w].log[2].ret = "True"
        /\ wk[w].count = 1

\* C14: after any sequence and interleaving of the writers (process, seed,
\* manual creation, delete) the articles table holds at most one row per
\* identity and the content table at most one row per identity.
C14_OneRowPerIdentity ==
    /\ \A r1, r2 \in tbl.articles : r1.id = r2.id => r1 = r2
    /\ \A r1, r2 \in tbl.contents : r1.id = r2.id => r1 = r2

\* a write of an identity that was already stored, with another title
C14_Witness ==
    /\ tbl.last.op \in {"save_article", "save_articles_batch"}
    /\ tbl.last.existed
    /\ Cardinality(tbl.articles) >= 2
    /\ Cardinality(tbl.contents) >= 1

\* C19: the popularity lookup never raises; when the request fails (network
\* error, status other than 200, unparsable body) it returns 0 and leaves
\* the cache as it was; once a count is cached for a phrase every later
\* lookup of the phrase returns that count without a request to the
\* service, and no cached count ever changes.
C19_LookupNeverRaises ==
    kw.last.resp.kind # "none" =>
        LET l == kw.last
            key == cache_key(l.query)
        IN  /\ ~l.raised
            /\ (l.pre[key] = NoCount /\ l.resp.kind \in {"unavailable", "status", "badjson"})
                  => (l.ret = 0 /\ kw.cache = l.pre /\ l.called)
            /\ (l.pre[key] = NoCount /\ l.resp.kind = "ok")
                  => (l.ret = l.resp.n /\ kw.cache[key] = l.resp.n)
            /\ l.pre[key] # NoCount
                  => (l.ret = l.pre[key] /\ ~l.called /\ kw.cache = l.pre)
            /\ \A k \in CacheKeys : l.pre[k] # NoCount => kw.cache[k] = l.pre[k]

\* a lookup answered from the cache while the service is failing
C19_Witness ==
    /\ kw.last.resp.kind \in {"unavailable", "status", "badjson"}
    /\ kw.last.pre[cache_key(kw.last.query)] > 0
    /\ kw.last.ret = kw.last.pre[cache_key(kw.last.query)]
    /\ ~kw.last.called

\* C20: two evaluations of score_article with identical inputs, against a
\* suggestion service that answers identically, return the same score.
C20_ScoreDeterministic ==
    (kw.prev.done /\ kw.cur.done /\ kw.cur.in = kw.prev.in) => kw.cur.score = kw.prev.score

\* both threads have left overlapping calls for the same candidate
BothTerminated ==
    wk[1].st = "finished" /\ wk[2].st = "finished" /\ wk[1].item = wk[2].item

C12_SnapshotHasReadableContent ==
    site.reloaded =>
        \A i \in AllIds :
            site.news_cache[i].present =>
                (contents[i] # "NoContent" /\ get_cached(contents, i) # "None")

\* the persisted articles that have a content row
PersistedWithContent ==
    [i \in AllIds |-> IF articles[i].present /\ contents[i] # "NoContent"
                      THEN articles[i] ELSE NoArticle]

\* C15: after a firing of the refresh_news job the snapshot equals the
\* persisted articles that have GeneratedContent at that time.
C15_RefreshJobBoundsStaleness ==
    site.done = "refresh_news" => site.news_cache = PersistedWithContent

\* C16: after api_delete_article has returned, persistence holds neither the
\* article nor its content and the snapshot does not contain the identity,
\* with RSS/AI processing enabled or disabled.
C16_DeleteRemovesEverywhere ==
    site.done = "delete" =>
        /\ ~articles[site.target].present
        /\ contents[site.target] = "NoContent"
        /\ ~site.news_cache[site.target].present

InteractiveTriggers == {"seed_one", "force_add_one", "seed_articles", "manual"}

\* C17: with RSS/AI processing enabled, whatever an interactive trigger
\* answers is a payload with status ok, none or error and a message; no
\* exception leaves the handler.
C17_TriggersAnswerStructured ==
    (~site.disabled /\ site.resp.state = "sent" /\ site.resp.handler \in InteractiveTriggers)
    => (site.resp.status \in {"ok", "none", "error"} /\ site.resp.message)

\* the caller of seed-one or force-add-one has been answered by the timeout
TimedOut(s) ==
    s.resp.timedout /\ s.resp.handler \in {"seed_one", "force_add_one"}

BonusOf(ev) == recency_bonus(ev.in.published, ev.now)

\* C23: for every publication timestamp the recency bonus of score_article
\* lies between 0 and 15 points, and is 0 from 30 hours of age on.
C23_RecencyBonusBounded ==
    \A ev \in {kw.prev, kw.cur} :
        (ev.done /\ ev.in.published.kind = "naive")
        => /\ BonusOf(ev) >= 0
           /\ BonusOf(ev) <= RecencyMax
           /\ (ev.now - ev.in.published.t >= RecencyMax => BonusOf(ev) = 0)

\* C21: when lightweight_filter accepts an article, it still accepts it
\* after further high-value keyword occurrences are added to its text.
C21_FilterKeywordAdditive ==
    (kw.flt.longer /\ kw.flt.before) => kw.flt.accepted

\* an accepted article whose title matches a low-value pattern gained a
\* second keyword and is still accepted
C21_Witness ==
    /\ kw.flt.longer /\ kw.flt.before /\ kw.flt.accepted
    /\ low_value_title(kw.flt.title)
    /\ Cardinality({k \in 1..Len(FilterText(kw.flt.title, kw.flt.summary)) :
                       FilterText(kw.flt.title, kw.flt.summary)[k] \in HIGH_VALUE_KEYWORDS}) >= 2

\* the three reasons for a rejection, over a measured length
Rejects(len, title, summary, category) ==
    \/ len < MIN_CONTENT_LENGTH
    \/ low_value_title(title) /\ ~any_high_value_keyword(FilterText(title, summary))
    \/ category \in LOW_VALUE_CATEGORIES /\ ~any_high_value_keyword(FilterText(title, summary))

\* C22: lightweight_filter rejects exactly when the length of
\* title + " " + summary is below 80, or the title is low-value without a
\* high-value keyword, or the category is low-value without one.
C22_FilterRejectsExactly ==
    kw.flt.state = "checked"
    => (~kw.flt.accepted <=>
           Rejects(TextLen(FilterText(kw.flt.title, kw.flt.summary)),
                   kw.flt.title, kw.flt.summary, kw.flt.category))

\* C22 as the code has it: the length is that of the text without its
\* leading and trailing blanks.
C22_FilterRejectsExactlyStripped ==
    kw.flt.state = "checked"
    => (~kw.flt.accepted <=>
           Rejects(TextLen(Strip(FilterText(kw.flt.title, kw.flt.summary))),
                   kw.flt.title, kw.flt.summary, kw.flt.category))

\* a text of 80 characters with a trailing blank is rejected for its length
C22_Witness ==
    /\ kw.flt.state = "checked" /\ ~kw.flt.accepted
    /\ kw.flt.category = ""
    /\ ~low_value_title(kw.flt.title)
    /\ TextLen(FilterText(kw.flt.title, kw.flt.summary)) >= MIN_CONTENT_LENGTH

\* the candidates of a selection stand in the order of the ranked input
\* (the k-th candidate of the input has identity k)
InInputOrder(chosen) == \A a, b \in 1..Len(chosen) : a < b => chosen[a].id < chosen[b].id

Drop(s, n) == SubSeq(s, n + 1, Len(s))

\* C24: the list returned by _select_diverse_batch is in the order of the
\* ranked input, whether or not the second pass was needed.
C24_SelectionKeepsInputOrder ==
    sel.state = "output" => InInputOrder(sel.out)

\* C24 amended: the list is the capped selection in input order followed by
\* the fill-ins of the second pass in input order; it is in input order
\* throughout when it respects the caps.
C24_SelectionOrderedPerPass ==
    sel.state = "output" =>
        /\ CapsRespected(sel.out, sel.maxPerSource, sel.maxPerCategory) => InInputOrder(sel.out)
        /\ \E n \in 0..Len(sel.out) :
              /\ InInputOrder(Take(sel.out, n))
              /\ InInputOrder(Drop(sel.out, n))
              /\ CapsRespected(Take(sel.out, n), sel.maxPerSource, sel.maxPerCategory)
              /\ n < Len(sel.out) =>
                    ~CapRespectingLeft(sel.items, Take(sel.out, n), sel.maxPerSource,
                                       sel.maxPerCategory)

\* the second pass added a candidate that stands before a candidate of the
\* capped selection in the input
C24_Witness ==
    /\ sel.state = "output"
    /\ ~InInputOrder(sel.out)
    /\ Len(sel.out) = 3
    /\ CapsRespected(Take(sel.out, 2), sel.maxPerSource, sel.maxPerCategory)
    /\ ~CapsRespected(sel.out, sel.maxPerSource, sel.maxPerCategory)

MinOf(a, b) == IF a < b THEN a ELSE b

\* C25: _select_diverse_batch returns exactly min(max_count, |L|)
\* candidates, each taken from L and none twice.
C25_SelectionFillsQuota ==
    sel.state = "output" =>
        /\ Len(sel.out) = MinOf(sel.maxPerRun, Len(sel.items))
        /\ \A a \in 1..Len(sel.out) : sel.out[a] \in Range(sel.items)
        /\ \A a, b \in 1..Len(sel.out) : a # b => sel.out[a] # sel.out[b]

\* the quota was filled by the second pass
C25_Witness ==
    /\ sel.state = "output"
    /\ sel.maxPerRun > 0 /\ Len(sel.out) = sel.maxPerRun
    /\ ~CapsRespected(sel.out, sel.maxPerSource, sel.maxPerCategory)

\* the story of feed candidate j is published: its article and its content
\* are persisted
PublishedStory(j) == articles[j].present /\ contents[j] # "NoContent"

\* C26: once a story is published, a candidate of a later run with the same
\* feed title (the same NormalizedTitleKey) and another identity does not
\* survive the published-history dedup of process_new_rss_articles.
C26_PublishedStorySkipsSameTitle ==
    \A w \in Workers :
        AfterDedup(w) =>
            \A k \in 1..Len(wk[w].deduped) :
                \A j \in FeedIds \ {wk[w].deduped[k]} :
                    ~(PublishedStory(j) /\ KeyOf(j) = KeyOf(wk[w].deduped[k]))

\* a run of process_new_rss_articles by worker w on a non-empty batch has
\* ranked its pool
Ranked(w) == wk[w].op = "batch" /\ wk[w].batch # <<>> /\ wk[w].st \in {"running", "finished"}

\* the candidates the run has got from rank_and_filter_articles and those it
\* hands to the orchestrator
Handled(w) == Range(wk[w].ranked) \cup Range(wk[w].toProcess)

InCall(w) == wk[w].bpc = "loop" /\ wk[w].pc \in {"check", "prep", "gen", "save_article", "save_cache", "returned"}

\* C28: in a run in which some fetched item has no GeneratedContent, every
\* identity passed to the orchestrator is one without GeneratedContent, at
\* the start of the run and at the start of its call, and is passed once.
C28_ProcessedIdentityNotPassedAgain ==
    \A w \in Workers :
        (Ranked(w) /\ wk[w].uncached # <<>>) =>
            /\ \A k \in 1..Len(wk[w].toProcess) : wk[w].toProcess[k] \in Range(wk[w].uncached)
            /\ \A a, b \in 1..Len(wk[w].toProcess) :
                  a # b => wk[w].toProcess[a] # wk[w].toProcess[b]
            /\ InCall(w) => wk[w].preContent = "NoContent"

\* a run whose batch holds an identity with GeneratedContent and one without
\* is generating for the latter
C28_Witness ==
    \E w \in Workers :
        /\ Ranked(w) /\ InCall(w) /\ wk[w].pc = "gen"
        /\ wk[w].uncached # <<>>
        /\ \E k \in 1..Len(wk[w].batch) : contents[wk[w].batch[k]] # "NoContent"

\* worker w has got past its call of generate_all_explanations
PastGenerate(w) == wk[w].pc \in {"save_article", "save_cache", "returned"} /\ wk[w].blocks # "none"

\* C29: on a cache miss on which the generation capability answers,
\* generate_all_explanations stores the generated blocks under the identity
\* and returns them without raising; on a hit it returns the stored blocks
\* and invokes no generation.
C29_GenerateStoresThenReuses ==
    \A w \in Workers :
        /\ ("generate" \in wk[w].did /\ wk[w].genOut \in BlockKinds)
           => (wk[w].ret # "raised" /\ wk[w].blocks = wk[w].genOut
               /\ contents[wk[w].item] = wk[w].genOut)
        /\ (PastGenerate(w) /\ Readable(wk[w].preContent) /\ ~wk[w].skipped)
           => ("generate" \notin wk[w].did /\ wk[w].blocks = wk[w].preContent)

\* C30: when _do_seed_one_sync returns status ok, exactly one feed candidate
\* was turned into a published article during the invocation, the article
\* did not exist before, and the returned article_id is its identity.
C30_SeedOnePublishesOneNewArticle ==
    site.sync.status = "ok" =>
        /\ Cardinality(site.sync.created) = 1
        /\ site.sync.fresh = site.sync.created
        /\ site.sync.article_id \in site.sync.created


====
